---- MODULE Spec2Model ----
(***************************************************************************)
(* Model of scripts/add-swagger-examples.py: the injector                  *)
(* add_swagger_examples and the read / transform / write wrapper main.     *)
(*                                                                         *)
(* Python values produced by json.load are records                         *)
(*     [kind, val, members]                                                *)
(* kind    : "dict", "list", "str", "int", "bool", "NoneType"              *)
(* val     : the scalar's text ("" for containers)                         *)
(* members : for a dict the sequence of [k, v] items in insertion order,   *)
(*           for a list the sequence of [k |-> "", v] elements, <<>> for   *)
(*           scalars.                                                      *)
(* Strings the program computes on character by character (the model      *)
(* names) are sequences of one-character strings; Str joins them.          *)
(*                                                                         *)
(* State: file is docs/swagger.json, pc the position in main, swagger_spec *)
(* and updated_spec the local variables of main, stdout the lines printed, *)
(* exc the str() of the exception being handled, exit_status the process   *)
(* exit status (-1 while running).  History: reads / writes count the      *)
(* successful opens of the file for reading / writing in this run, log     *)
(* lists the steps of this run, file0 is the file when this run started,   *)
(* doc_in the document as json.load returned it, runs the number of the    *)
(* run, prev_status the exit status of the previous run (-1 if none).      *)
(***************************************************************************)
EXTENDS Integers, Sequences, FiniteSets, TLC

VARIABLES file, pc, swagger_spec, updated_spec, stdout, exc, exit_status,
          reads, writes, log, file0, doc_in, runs, prev_status

vars == <<file, pc, swagger_spec, updated_spec, stdout, exc, exit_status,
          reads, writes, log, file0, doc_in, runs, prev_status>>

(* ------------------------------ bounds --------------------------------- *)

\* number of times the tool is run on the same file
MaxRuns == 2

\* number of definitions whose key is not in the example table
MaxOther == 1

\* a failed write may leave any of the first MaxCut proper prefixes ...
MaxCut == 21

\* ... and every proper prefix whose length is a multiple of CutStride
CutStride == 397

(* --------------------------- Python values ----------------------------- *)

S(s) == [kind |-> "str", val |-> s, members |-> <<>>]

N(s) == [kind |-> "int", val |-> s, members |-> <<>>]

B(s) == [kind |-> "bool", val |-> s, members |-> <<>>]

None == [kind |-> "NoneType", val |-> "null", members |-> <<>>]

True == B("true")

False == B("false")

It(key, value) == [k |-> key, v |-> value]

O(items) == [kind |-> "dict", val |-> "", members |-> items]

L(elems) == [kind |-> "list", val |-> "",
             members |-> [i \in 1..Len(elems) |-> It("", elems[i])]]

\* a variable that holds no object yet
Unbound == [kind |-> "unbound", val |-> "", members |-> <<>>]

(* ------------------------------ strings -------------------------------- *)

RECURSIVE Str(_)
Str(cs) == IF cs = <<>> THEN "" ELSE Head(cs) \o Str(Tail(cs))

UpperCase == <<"A","B","C","D","E","F","G","H","I","J","K","L","M",
               "N","O","P","Q","R","S","T","U","V","W","X","Y","Z">>

LowerCase == <<"a","b","c","d","e","f","g","h","i","j","k","l","m",
               "n","o","p","q","r","s","t","u","v","w","x","y","z">>

\* mutant: the name is not lower-cased
lower_skipped(cs) == cs

\* str.lower(), character by character
lower(cs) ==
    [i \in 1..Len(cs) |->
        IF \E j \in 1..26 : UpperCase[j] = cs[i]
        THEN LowerCase[CHOOSE j \in 1..26 : UpperCase[j] = cs[i]]
        ELSE cs[i]]

\* str.replace(old, new): every non-overlapping occurrence, left to right
RECURSIVE replace(_, _, _)
replace(cs, old, new) ==
    IF Len(cs) < Len(old) THEN cs
    ELSE IF SubSeq(cs, 1, Len(old)) = old
         THEN new \o replace(SubSeq(cs, Len(old) + 1, Len(cs)), old, new)
         ELSE <<Head(cs)>> \o replace(Tail(cs), old, new)

\* needle in hay, for two str objects: needle occurs at some position of hay
StrContains(hay, needle) ==
    \E i \in 1..(Len(hay) - Len(needle) + 1) :
        SubSeq(hay, i, i + Len(needle) - 1) = needle

(* ------------------------- dict / list protocol ------------------------ *)

Keys(d) == {d.members[i].k : i \in 1..Len(d.members)}

KeyIndex(d, key) == CHOOSE i \in 1..Len(d.members) : d.members[i].k = key

\* key in container  ->  "True", "False" or the exception raised
PyIn(container, key) ==
    CASE container.kind = "dict" ->
            IF key \in Keys(container) THEN "True" ELSE "False"
      [] container.kind = "list" ->
            IF \E i \in 1..Len(container.members) :
                   container.members[i].v = S(key)
            THEN "True" ELSE "False"
      [] container.kind = "str" ->
            IF StrContains(container.val, key) THEN "True" ELSE "False"
      [] OTHER -> "TypeError"

\* can container[key] be evaluated (key is a str that PyIn found)
Subscriptable(container) == container.kind = "dict"

\* str(e) of the TypeError raised by `key in container`
InError(container) ==
    "argument of type '" \o container.kind \o "' is not iterable"

\* str(e) of the TypeError raised by container[key] with a str key
SubscriptError(container) ==
    IF container.kind = "list"
    THEN "list indices must be integers or slices, not str"
    ELSE "string indices must be integers, not 'str'"

\* container[key] for a dict that has the key
GetItem(d, key) == d.members[KeyIndex(d, key)].v

\* d[key] = value on a dict: an existing key keeps its position
SetItem(d, key, value) ==
    IF key \in Keys(d)
    THEN [d EXCEPT !.members[KeyIndex(d, key)].v = value]
    ELSE [d EXCEPT !.members = Append(@, It(key, value))]

\* mutant: the assignment reaches into an x-examples entry that must exist
SupportsItemAssignment_existing(obj) ==
    obj.kind = "dict" /\ "x-examples" \in Keys(obj)

\* does obj[key] = value succeed
SupportsItemAssignment(obj) == obj.kind = "dict"

\* str(e) of the TypeError raised by obj[key] = value with a str key
ItemAssignmentError(obj) ==
    IF obj.kind = "list"
    THEN "list indices must be integers or slices, not str"
    ELSE "'" \o obj.kind \o "' object does not support item assignment"

(* ------------------------- add_swagger_examples ------------------------ *)

BucketRequest == <<"B","u","c","k","e","t","R","e","q","u","e","s","t">>

ProjectRequest == <<"P","r","o","j","e","c","t","R","e","q","u","e","s","t">>

FolderRequest == <<"F","o","l","d","e","r","R","e","q","u","e","s","t">>

\* the example table, in the order the dict literal lists its keys
model_examples == <<
  [name |-> BucketRequest,
   Basic |-> O(<<
      It("name", S("my-simple-storage-bucket")),
      It("location", S("us-central1")),
      It("storage_class", S("STANDARD")) >>),
   Advanced |-> O(<<
      It("name", S("my-enterprise-bucket-2024")),
      It("location", S("us-central1")),
      It("storage_class", S("STANDARD")),
      It("labels", O(<<
          It("environment", S("production")),
          It("team", S("platform")),
          It("cost-center", S("engineering")) >>)),
      It("versioning", True),
      It("kms_key_name", S("projects/velvety-byway-327718/locations/us-central1/keyRings/bucket-encryption/cryptoKeys/bucket-key")),
      It("retention_policy", O(<<
          It("retention_period_seconds", N("7776000")),
          It("is_locked", False) >>)),
      It("uniform_bucket_level_access", True),
      It("public_access_prevention", S("enforced")) >>)],
  [name |-> ProjectRequest,
   Basic |-> O(<<
      It("project_id", S("my-simple-project-2024")),
      It("display_name", S("My Simple Project")) >>),
   Advanced |-> O(<<
      It("project_id", S("enterprise-app-prod-2024")),
      It("display_name", S("Enterprise Application - Production")),
      It("parent_id", S("123456789012")),
      It("parent_type", S("organization")),
      It("labels", O(<<
          It("environment", S("production")),
          It("team", S("backend")),
          It("cost-center", S("engineering")),
          It("compliance", S("sox")) >>)) >>)],
  [name |-> FolderRequest,
   Basic |-> O(<<
      It("display_name", S("Development Environment")),
      It("parent_id", S("123456789012")),
      It("parent_type", S("organization")) >>),
   Advanced |-> O(<<
      It("display_name", S("Production - North America Region")),
      It("parent_id", S("987654321098")),
      It("parent_type", S("folder")) >>)] >>

\* f"models.{model_name}"
full_model_name(model_name) == "models." \o Str(model_name)

\* model_name.lower().replace('request', '')
noun(model_name) ==
    Str(replace(lower(model_name), <<"r","e","q","u","e","s","t">>, <<>>))

\* mutant: the two example values are attached to the wrong tiers
x_examples_swapped(model_name, examples) == O(<<
    It("Basic", O(<<
        It("summary", S("Basic Example")),
        It("description",
           S("Simple " \o noun(model_name) \o " with minimal required fields")),
        It("value", examples.Advanced) >>)),
    It("Advanced", O(<<
        It("summary", S("Advanced Example")),
        It("description",
           S("Enterprise " \o noun(model_name) \o " with all available options")),
        It("value", examples.Basic) >>)) >>)

\* the dict literal assigned to definition["x-examples"]
x_examples(model_name, examples) == O(<<
    It("Basic", O(<<
        It("summary", S("Basic Example")),
        It("description",
           S("Simple " \o noun(model_name) \o " with minimal required fields")),
        It("value", examples.Basic) >>)),
    It("Advanced", O(<<
        It("summary", S("Advanced Example")),
        It("description",
           S("Enterprise " \o noun(model_name) \o " with all available options")),
        It("value", examples.Advanced) >>)) >>)

\* mutant: the definition is replaced by a dict that holds only the examples
patch_definition_replaces(definition, model_name, examples) ==
    O(<<It("x-examples", x_examples(model_name, examples))>>)

\* mutant: the examples are added as one more entry on every call
patch_definition_appends(definition, model_name, examples) ==
    [definition EXCEPT !.members =
        Append(@, It("x-examples", x_examples(model_name, examples)))]

\* definition["x-examples"] = {...}
patch_definition(definition, model_name, examples) ==
    SetItem(definition, "x-examples", x_examples(model_name, examples))

\* the outcome of a call: the (mutated) argument, the lines printed, and
\* str(e) of the exception that ended the call ("" when it returned)
Outcome(spec, out, e) == [spec |-> spec, out |-> out, exc |-> e]

\* the for loop over model_examples.items(), from its i-th item on
RECURSIVE for_model_examples(_, _, _)
for_model_examples(spec, out, i) ==
    IF i > Len(model_examples) THEN Outcome(spec, out, "")
    ELSE
      LET model_name == model_examples[i].name
          full       == full_model_name(model_name)
      IN
      \* swagger_spec["definitions"]
      IF ~Subscriptable(spec) THEN Outcome(spec, out, SubscriptError(spec))
      ELSE
        LET definitions == GetItem(spec, "definitions")
            found       == PyIn(definitions, full)
        IN
        IF found = "TypeError" THEN Outcome(spec, out, InError(definitions))
        ELSE IF found = "False" THEN for_model_examples(spec, out, i + 1)
        \* swagger_spec["definitions"][full_model_name]
        ELSE IF ~Subscriptable(definitions)
             THEN Outcome(spec, out, SubscriptError(definitions))
        ELSE
          LET definition == GetItem(definitions, full) IN
          IF ~SupportsItemAssignment(definition)
          THEN Outcome(spec, out, ItemAssignmentError(definition))
          ELSE
            LET patched ==
                  patch_definition(definition, model_name, model_examples[i])
                spec2 ==
                  SetItem(spec, "definitions",
                          SetItem(definitions, full, patched))
            IN
            for_model_examples(spec2,
                Append(out, "Added examples to " \o full), i + 1)

\* mutant: a missing definitions field is created empty
add_swagger_examples_creates(spec) ==
    LET has == PyIn(spec, "definitions") IN
    IF has = "TypeError" THEN Outcome(spec, <<>>, InError(spec))
    ELSE IF has = "False"
         THEN IF spec.kind = "dict"
              THEN Outcome(SetItem(spec, "definitions", O(<<>>)), <<>>, "")
              ELSE Outcome(spec, <<>>, "")
    ELSE for_model_examples(spec, <<>>, 1)

add_swagger_examples(spec) ==
    LET has == PyIn(spec, "definitions") IN
    IF has = "TypeError" THEN Outcome(spec, <<>>, InError(spec))
    ELSE IF has = "False" THEN Outcome(spec, <<>>, "")
    ELSE for_model_examples(spec, <<>>, 1)

(* ------------------------------ the file ------------------------------- *)

swagger_file == "docs/swagger.json"

\* File content, as the file opened in text mode yields it.
\* state "ok": a JSON text, whose tree lists the members of every object in
\* textual order (a key may occur twice) and whose indent is the indentation
\* width.
\* state "raw": the ASCII characters raw, which are blanks (space, tab, line
\* feed) followed by nothing or by a character that starts no JSON value
\* and no literal json.load accepts (see StartsValue); raw has no carriage
\* return, which text mode turns into a line feed.
\* state "partial": the first cut characters, at least one and not all, of
\* the text json.dump writes for tree.
\* Numbers are ints (no fraction, no exponent, no NaN or Infinity).
Text(state, indent, tree) ==
    [state |-> state, indent |-> indent, tree |-> tree, cut |-> 0, raw |-> ""]

Raw(raw) ==
    [state |-> "raw", indent |-> 0, tree |-> Unbound, cut |-> 0, raw |-> raw]

\* no bytes
Empty == Raw("")

Partial(obj, k) ==
    [state |-> "partial", indent |-> 2, tree |-> obj, cut |-> k, raw |-> ""]

File(exists, readable, writable, text) ==
    [exists |-> exists, readable |-> readable, writable |-> writable,
     text |-> text]

\* json.load: objects become dicts (a repeated key keeps its first position
\* and its last value), arrays become lists
RECURSIVE json_load(_)
json_load(tree) ==
    LET RECURSIVE items(_, _)
        items(ms, d) ==
            IF ms = <<>> THEN d
            ELSE items(Tail(ms), SetItem(d, Head(ms).k, json_load(Head(ms).v)))
    IN
    CASE tree.kind = "dict" -> items(tree.members, O(<<>>))
      [] tree.kind = "list" ->
            [tree EXCEPT !.members =
                [i \in 1..Len(tree.members) |->
                    It("", json_load(tree.members[i].v))]]
      [] OTHER -> tree

\* json.dump(obj, f, indent=2): the items of every dict in dict order
json_dump(obj) == Text("ok", 2, obj)

\* the indentation of nesting level `level`: two spaces per level
RECURSIVE Indent(_)
Indent(level) == IF level = 0 THEN "" ELSE "  " \o Indent(level - 1)

\* the characters json.dump(obj, f, indent=2) writes for obj at a nesting
\* level (the strings of the modelled documents need no escaping)
RECURSIVE encode(_, _)
encode(obj, level) ==
    LET RECURSIVE items(_)
        items(ms) ==
            IF ms = <<>> THEN ""
            ELSE Indent(level + 1)
                 \o (IF obj.kind = "dict" THEN "\"" \o Head(ms).k \o "\": "
                     ELSE "")
                 \o encode(Head(ms).v, level + 1)
                 \o (IF Len(ms) > 1 THEN ",\n" ELSE "\n")
                 \o items(Tail(ms))
    IN
    CASE obj.kind = "dict" ->
            IF obj.members = <<>> THEN "{}"
            ELSE "{\n" \o items(obj.members) \o Indent(level) \o "}"
      [] obj.kind = "list" ->
            IF obj.members = <<>> THEN "[]"
            ELSE "[\n" \o items(obj.members) \o Indent(level) \o "]"
      [] obj.kind = "str" -> "\"" \o obj.val \o "\""
      [] OTHER -> obj.val

\* what the decoder reports and the 0-based index it reports it at
Err(msg, pos) == [msg |-> msg, pos |-> pos]

\* The error json.load finds in a text cut after its first k characters,
\* inside the value obj whose characters start at index `start`, for
\* start < k < start + Len(encode(obj, level)).  An int cut short is read as
\* a shorter int, the error is then the missing delimiter after it, unless
\* only its minus sign is left, which is no value.
RECURSIVE PrefixError(_, _, _, _)
PrefixError(obj, level, start, k) ==
    LET n == Len(obj.members)
        RECURSIVE walk(_, _)
        \* member i, whose indentation starts at index p
        walk(i, p) ==
            LET key == obj.members[i].k
                v   == obj.members[i].v
                q   == p + 2 * (level + 1)       \* dict: the key's opening quote
                cq  == q + 1 + Len(key)          \* dict: the key's closing quote
                vs  == IF obj.kind = "dict" THEN cq + 3 ELSE q
                ve  == vs + Len(encode(v, level + 1))
            IN
            IF obj.kind = "dict" /\ k <= q
            THEN Err("Expecting property name enclosed in double quotes", k)
            ELSE IF obj.kind = "dict" /\ k <= cq
            THEN Err("Unterminated string starting at", q)
            ELSE IF obj.kind = "dict" /\ k = cq + 1
            THEN Err("Expecting ':' delimiter", k)
            ELSE IF k <= vs THEN Err("Expecting value", k)
            ELSE IF k < ve THEN PrefixError(v, level + 1, vs, k)
            ELSE IF k = ve \/ i = n THEN Err("Expecting ',' delimiter", k)
            ELSE walk(i + 1, ve + 2)
    IN
    CASE obj.kind = "dict" ->
            IF n = 0
            THEN Err("Expecting property name enclosed in double quotes", k)
            ELSE walk(1, start + 2)
      [] obj.kind = "list" ->
            IF n = 0 THEN Err("Expecting value", k)
            ELSE walk(1, start + 2)
      [] obj.kind = "str" -> Err("Unterminated string starting at", start)
      [] obj.kind = "int" ->
            IF Head(obj.val) = "-" /\ k = start + 1
            THEN Err("Expecting value", start)     \* a lone minus sign
            ELSE Err("Expecting ',' delimiter", k)
      [] OTHER -> Err("Expecting value", start)

\* the number of line feeds in s
RECURSIVE CountNL(_)
CountNL(s) ==
    IF Len(s) = 0 THEN 0
    ELSE IF Len(s) = 1 THEN (IF s = "\n" THEN 1 ELSE 0)
    ELSE LET h == Len(s) \div 2 IN
         CountNL(SubSeq(s, 1, h)) + CountNL(SubSeq(s, h + 1, Len(s)))

\* the 1-based position of the last line feed of s, 0 if it has none
RECURSIVE LastNL(_)
LastNL(s) ==
    IF Len(s) = 0 THEN 0
    ELSE IF Len(s) = 1 THEN (IF s = "\n" THEN 1 ELSE 0)
    ELSE LET h == Len(s) \div 2
             r == LastNL(SubSeq(s, h + 1, Len(s)))
         IN IF r > 0 THEN h + r ELSE LastNL(SubSeq(s, 1, h))

\* str(e) of JSONDecodeError(msg, doc, pos)
ErrMsg(msg, doc, pos) ==
    LET before == SubSeq(doc, 1, pos) IN
    msg \o ": line " \o ToString(CountNL(before) + 1)
        \o " column " \o ToString(pos + 1 - LastNL(before))
        \o " (char " \o ToString(pos) \o ")"

\* a text cut inside a top-level int is the text of a shorter int, unless
\* only its minus sign is left
Decodable(text) ==
    \/ text.state = "ok"
    \/ /\ text.state = "partial"
       /\ text.tree.kind = "int"
       /\ ~(Head(text.tree.val) = "-" /\ text.cut = 1)

\* the JSON text json.load decodes from a decodable file content
DecodedTree(text) ==
    IF text.state = "ok" THEN text.tree
    ELSE N(SubSeq(text.tree.val, 1, text.cut))

\* the characters the decoder skips before a value
Blanks == {" ", "\t", "\n"}

\* the characters a JSON value or a literal that json.load accepts (true,
\* false, null, NaN, Infinity, -Infinity) starts with
StartsValue == {"\"", "{", "[", "-", "0", "1", "2", "3", "4", "5", "6", "7",
                "8", "9", "t", "f", "n", "N", "I"}

\* the number of blanks s starts with
RECURSIVE LeadingBlanks(_)
LeadingBlanks(s) ==
    IF Len(s) = 0 \/ Head(s) \notin Blanks THEN 0
    ELSE 1 + LeadingBlanks(Tail(s))

\* raw is a content of state "raw"
IsRaw(raw) ==
    LET b == LeadingBlanks(raw) IN
    b = Len(raw) \/ SubSeq(raw, b + 1, b + 1) \notin StartsValue

\* str(e) of the JSONDecodeError json.load raises on a content that is not
\* decodable: in a raw content no value is found after the blanks
JSONDecodeError(text) ==
    IF text.state = "partial"
    THEN LET e == PrefixError(text.tree, 0, 0, text.cut) IN
         ErrMsg(e.msg, SubSeq(encode(text.tree, 0), 1, text.cut), e.pos)
    ELSE ErrMsg("Expecting value", text.raw, LeadingBlanks(text.raw))

\* the lengths at which a failed write may leave the text: the first MaxCut
\* ones and every CutStride-th one
Cuts(obj) ==
    {k \in 1..(Len(encode(obj, 0)) - 1) : k <= MaxCut \/ k % CutStride = 0}

(* ---------------------------- the documents ---------------------------- *)

\* an x-examples value left by something else than this tool
StaleExamples == O(<<It("Old", O(<<It("value", S("stale"))>>))>>)

\* what a definition key may hold
DefinitionValues == {
    O(<<It("type", S("object")),
        It("required", L(<<S("name")>>))>>),
    O(<<It("description", S("request body")),
        It("x-examples", StaleExamples),
        It("type", S("object"))>>),
    S("object"),
    None }

\* keys of definitions that are not models.<Name> for a table name
OtherKey(i) ==
    CASE i = 1 -> "BucketRequest"
      [] i = 2 -> "models.bucketrequest"
      [] OTHER -> "models.Other" \o ToString(i)

\* their values: a string, an object, a string, ...
OtherItems(n) ==
    [i \in 1..n |->
        It(OtherKey(i),
           IF i % 2 = 1 THEN S("not a schema")
           ELSE O(<<It("type", S("object"))>>))]

\* marks a table name that has no definition in the document
Absent == S("absent")

Presence == DefinitionValues \cup {Absent}

\* the item of a table name in definitions, if any
TableItem(model_name, value) ==
    IF value = Absent THEN <<>>
    ELSE <<It(full_model_name(model_name), value)>>

\* documents whose definitions field is an object
SwaggerDocs ==
    { O(<<It("swagger", S("2.0")),
          It("definitions",
             O(OtherItems(n)
               \o TableItem(FolderRequest, f)
               \o TableItem(BucketRequest, b)
               \o TableItem(ProjectRequest, p))),
          It("paths", O(<<>>))>>) :
        n \in 0..MaxOther, f \in Presence, b \in Presence, p \in Presence }

\* documents without a definitions field, or whose definitions field is not
\* an object, or that are not objects
OddDocs == {
    O(<<>>),
    O(<<It("swagger", S("2.0")), It("paths", O(<<>>))>>),
    O(<<It("definitions", S("see models.FolderRequest here"))>>),
    O(<<It("definitions", S("none"))>>),
    O(<<It("definitions", L(<<S("models.ProjectRequest")>>))>>),
    O(<<It("definitions", L(<<>>))>>),
    O(<<It("definitions", N("5"))>>),
    O(<<It("definitions", None)>>),
    L(<<>>),
    L(<<S("definitions")>>),
    S("swagger"),
    S("see definitions here"),
    N("5"),
    True,
    None }

\* a JSON text that repeats keys
RepeatedKeys ==
    O(<<It("definitions", O(<<
            It("models.FolderRequest", S("first"))>>)),
        It("info", O(<<>>)),
        It("definitions", O(<<
            It("models.FolderRequest", S("first")),
            It("models.BucketRequest", O(<<It("type", S("object"))>>)),
            It("models.FolderRequest", O(<<It("type", S("object"))>>))>>))>>)

\* contents that are not JSON: no bytes, only blanks, other text
GarbageTexts == {"", "  \n", "<html>", "  x", "\n\n\tx = 1\n"}

\* the file contents a run may start from; generated documents are indented
\* by four columns
Texts ==
    { Text("ok", 4, d) : d \in SwaggerDocs \cup OddDocs \cup {RepeatedKeys} }
    \cup { Raw(r) : r \in {r \in GarbageTexts : IsRaw(r)} }

Files ==
    { File(TRUE, r, w, t) : r \in BOOLEAN, w \in BOOLEAN, t \in Texts }
    \cup { File(FALSE, FALSE, FALSE, Empty) }

(* -------------------------------- main --------------------------------- *)

Init ==
    /\ file \in Files
    /\ file0 = file
    /\ pc = "start"
    /\ swagger_spec = Unbound
    /\ updated_spec = Unbound
    /\ doc_in = Unbound
    /\ stdout = <<>>
    /\ exc = ""
    /\ exit_status = -1
    /\ reads = 0
    /\ writes = 0
    /\ log = <<>>
    /\ runs = 1
    /\ prev_status = -1

\* with open(swagger_file, "r") as f: the file opens
OpenRead ==
    /\ pc = "start"
    /\ file.exists /\ file.readable
    /\ pc' = "reading"
    /\ reads' = reads + 1
    /\ log' = Append(log, "open_r")
    /\ UNCHANGED <<file, swagger_spec, updated_spec, stdout, exc, exit_status,
                   writes, file0, doc_in, runs, prev_status>>

\* with open(swagger_file, "r") as f: open raises
OpenReadFails ==
    /\ pc = "start"
    /\ ~(file.exists /\ file.readable)
    /\ exc' = IF ~file.exists
              THEN "[Errno 2] No such file or directory: '" \o swagger_file \o "'"
              ELSE "[Errno 13] Permission denied: '" \o swagger_file \o "'"
    /\ pc' = "except"
    /\ log' = Append(log, "open_r_failed")
    /\ UNCHANGED <<file, swagger_spec, updated_spec, stdout, exit_status,
                   reads, writes, file0, doc_in, runs, prev_status>>

\* swagger_spec = json.load(f)
JsonLoad ==
    /\ pc = "reading"
    /\ Decodable(file.text)
    /\ swagger_spec' = json_load(DecodedTree(file.text))
    /\ doc_in' = json_load(DecodedTree(file.text))
    /\ pc' = "loaded"
    /\ log' = Append(log, "load")
    /\ UNCHANGED <<file, updated_spec, stdout, exc, exit_status, reads, writes,
                   file0, runs, prev_status>>

\* json.load(f) raises JSONDecodeError
JsonLoadFails ==
    /\ pc = "reading"
    /\ ~Decodable(file.text)
    /\ exc' = JSONDecodeError(file.text)
    /\ pc' = "except"
    /\ log' = Append(log, "load_failed")
    /\ UNCHANGED <<file, swagger_spec, updated_spec, stdout, exit_status,
                   reads, writes, file0, doc_in, runs, prev_status>>

\* mutant: an exception of add_swagger_examples is swallowed and main goes on
Transform_swallows ==
    /\ pc = "loaded"
    /\ LET r == add_swagger_examples(swagger_spec) IN
       /\ swagger_spec' = r.spec
       /\ stdout' = stdout \o r.out
       /\ updated_spec' = r.spec
       /\ pc' = "transformed"
       /\ exc' = exc
       /\ log' = Append(log, IF r.exc = "" THEN "transform"
                                           ELSE "transform_failed")
    /\ UNCHANGED <<file, exit_status, reads, writes, file0, doc_in, runs,
                   prev_status>>

\* updated_spec = add_swagger_examples(swagger_spec)
Transform ==
    /\ pc = "loaded"
    /\ LET r == add_swagger_examples(swagger_spec) IN
       /\ swagger_spec' = r.spec
       /\ stdout' = stdout \o r.out
       /\ IF r.exc = ""
          THEN /\ updated_spec' = r.spec
               /\ pc' = "transformed"
               /\ exc' = exc
               /\ log' = Append(log, "transform")
          ELSE /\ updated_spec' = updated_spec
               /\ pc' = "except"
               /\ exc' = r.exc
               /\ log' = Append(log, "transform_failed")
    /\ UNCHANGED <<file, exit_status, reads, writes, file0, doc_in, runs,
                   prev_status>>

\* mutant: the success line is printed before the file is written
OpenWrite_prints ==
    /\ pc = "transformed"
    /\ file.exists => file.writable
    /\ file' = IF file.exists THEN [file EXCEPT !.text = Empty]
               ELSE File(TRUE, TRUE, TRUE, Empty)
    /\ writes' = writes + 1
    /\ pc' = "writing"
    /\ log' = Append(log, "open_w")
    /\ stdout' = Append(stdout,
          "Successfully added Swagger 2.0 examples to " \o swagger_file)
    /\ UNCHANGED <<swagger_spec, updated_spec, exc, exit_status, reads,
                   file0, doc_in, runs, prev_status>>

\* with open(swagger_file, "w") as f: the file is created or truncated
OpenWrite ==
    /\ pc = "transformed"
    /\ file.exists => file.writable
    /\ file' = IF file.exists THEN [file EXCEPT !.text = Empty]
               ELSE File(TRUE, TRUE, TRUE, Empty)
    /\ writes' = writes + 1
    /\ pc' = "writing"
    /\ log' = Append(log, "open_w")
    /\ UNCHANGED <<swagger_spec, updated_spec, stdout, exc, exit_status, reads,
                   file0, doc_in, runs, prev_status>>

\* with open(swagger_file, "w") as f: open raises
OpenWriteFails ==
    /\ pc = "transformed"
    /\ file.exists /\ ~file.writable
    /\ exc' = "[Errno 13] Permission denied: '" \o swagger_file \o "'"
    /\ pc' = "except"
    /\ log' = Append(log, "open_w_failed")
    /\ UNCHANGED <<file, swagger_spec, updated_spec, stdout, exit_status,
                   reads, writes, file0, doc_in, runs, prev_status>>

\* json.dump(updated_spec, f, indent=2) and the close of f
JsonDump ==
    /\ pc = "writing"
    /\ file' = [file EXCEPT !.text = json_dump(updated_spec)]
    /\ pc' = "written"
    /\ log' = Append(log, "dump")
    /\ UNCHANGED <<swagger_spec, updated_spec, stdout, exc, exit_status, reads,
                   writes, file0, doc_in, runs, prev_status>>

\* a write or the flush at close raises OSError (no space left on device):
\* the bytes that reached the file, none or a proper prefix, stay there
JsonDumpFails ==
    /\ pc = "writing"
    /\ \E t \in {Empty}
                \cup {Partial(updated_spec, k) : k \in Cuts(updated_spec)} :
          file' = [file EXCEPT !.text = t]
    /\ exc' = "[Errno 28] No space left on device"
    /\ pc' = "except"
    /\ log' = Append(log, "dump_failed")
    /\ UNCHANGED <<swagger_spec, updated_spec, stdout, exit_status, reads,
                   writes, file0, doc_in, runs, prev_status>>

\* print(f"Successfully added ..."), main returns, the process exits 0
PrintSuccess ==
    /\ pc = "written"
    /\ stdout' = Append(stdout,
          "Successfully added Swagger 2.0 examples to " \o swagger_file)
    /\ exit_status' = 0
    /\ pc' = "exited"
    /\ UNCHANGED <<file, swagger_spec, updated_spec, exc, reads, writes, log,
                   file0, doc_in, runs, prev_status>>

\* mutant: the handler prints the error and falls off the end of main
Except_returns ==
    /\ pc = "except"
    /\ stdout' = Append(stdout, "Error processing swagger file: " \o exc)
    /\ exit_status' = 0
    /\ pc' = "exited"
    /\ UNCHANGED <<file, swagger_spec, updated_spec, exc, reads, writes, log,
                   file0, doc_in, runs, prev_status>>

\* except Exception as e: print(...); sys.exit(1)
Except ==
    /\ pc = "except"
    /\ stdout' = Append(stdout, "Error processing swagger file: " \o exc)
    /\ exit_status' = 1
    /\ pc' = "exited"
    /\ UNCHANGED <<file, swagger_spec, updated_spec, exc, reads, writes, log,
                   file0, doc_in, runs, prev_status>>

\* the tool is run again on the file the previous run left
Rerun ==
    /\ pc = "exited"
    /\ runs < MaxRuns
    /\ runs' = runs + 1
    /\ prev_status' = exit_status
    /\ file0' = file
    /\ pc' = "start"
    /\ swagger_spec' = Unbound
    /\ updated_spec' = Unbound
    /\ doc_in' = Unbound
    /\ stdout' = <<>>
    /\ exc' = ""
    /\ exit_status' = -1
    /\ reads' = 0
    /\ writes' = 0
    /\ log' = <<>>
    /\ UNCHANGED file

main ==
    \/ OpenRead
    \/ OpenReadFails
    \/ JsonLoad
    \/ JsonLoadFails
    \/ Transform
    \/ OpenWrite
    \/ OpenWriteFails
    \/ JsonDump
    \/ JsonDumpFails
    \/ PrintSuccess
    \/ Except

Next == main \/ Rerun

Spec == Init /\ [][Next]_vars

(* ----------------------- vocabulary of the claims ---------------------- *)

\* d[key] when d is a dict that has the key, Unbound otherwise
Field(d, key) ==
    IF d.kind = "dict" /\ key \in Keys(d) THEN GetItem(d, key) ELSE Unbound

HasField(d, key) == d.kind = "dict" /\ key \in Keys(d)

LastStep == IF log = <<>> THEN "" ELSE log[Len(log)]

\* the call of add_swagger_examples has just ended
Returned == LastStep = "transform"

Raised == LastStep = "transform_failed"

AfterTransform == Returned \/ Raised

TableNames == {model_examples[i].name : i \in 1..Len(model_examples)}

TableKeys == {full_model_name(n) : n \in TableNames}

\* the definition stored under models.<model_name> in a document
DefinitionOf(doc, model_name) ==
    Field(Field(doc, "definitions"), full_model_name(model_name))

Matched(doc, model_name) ==
    HasField(Field(doc, "definitions"), full_model_name(model_name))

\* a dict with exactly these keys, each once
HasExactlyKeys(d, keys) ==
    d.kind = "dict" /\ Keys(d) = keys /\ Len(d.members) = Cardinality(keys)

(* ------------------------------- claims -------------------------------- *)

\* C1: when add_swagger_examples returns, every definition models.N of a
\* table name N that the document had holds an x-examples field with exactly
\* the keys Basic and Advanced, each with exactly summary, description and
\* value, the summaries 'Basic Example' / 'Advanced Example' and the values
\* the table's examples for N, whether or not the definition had an
\* x-examples field before.
C1_ExamplesInjected ==
    Returned =>
      \A i \in 1..Len(model_examples) :
        LET name == model_examples[i].name
            xe   == Field(DefinitionOf(updated_spec, name), "x-examples")
            bas  == Field(xe, "Basic")
            adv  == Field(xe, "Advanced")
        IN
        Matched(doc_in, name) =>
          /\ HasExactlyKeys(xe, {"Basic", "Advanced"})
          /\ HasExactlyKeys(bas, {"summary", "description", "value"})
          /\ HasExactlyKeys(adv, {"summary", "description", "value"})
          /\ Field(bas, "summary") = S("Basic Example")
          /\ Field(adv, "summary") = S("Advanced Example")
          /\ Field(bas, "value") = model_examples[i].Basic
          /\ Field(adv, "value") = model_examples[i].Advanced
          /\ (name = FolderRequest =>
                Field(Field(adv, "value"), "display_name")
                    = S("Production - North America Region"))

\* a call returned on a document where one table definition had a stale
\* x-examples field and another had none
C1_Witness ==
    /\ Returned
    /\ Field(DefinitionOf(doc_in, FolderRequest), "x-examples") = StaleExamples
    /\ Matched(doc_in, BucketRequest)
    /\ ~HasField(DefinitionOf(doc_in, BucketRequest), "x-examples")

\* what add_swagger_examples may change between two documents: nothing but
\* the x-examples key of the dict definitions stored under a table key
OnlyExamplesChanged(before, after) ==
    IF before.kind # "dict" THEN after = before
    ELSE
      /\ after.kind = "dict"
      /\ Len(after.members) = Len(before.members)
      /\ Keys(after) = Keys(before)
      /\ \A key \in Keys(before) \ {"definitions"} :
            Field(after, key) = Field(before, key)
      /\ LET defs0 == Field(before, "definitions")
             defs1 == Field(after, "definitions")
         IN
         IF defs0.kind # "dict" THEN defs1 = defs0
         ELSE
           /\ defs1.kind = "dict"
           /\ Len(defs1.members) = Len(defs0.members)
           /\ Keys(defs1) = Keys(defs0)
           /\ \A key \in Keys(defs0) \ TableKeys :
                 Field(defs1, key) = Field(defs0, key)
           /\ \A key \in Keys(defs0) \cap TableKeys :
                 LET d0 == Field(defs0, key)
                     d1 == Field(defs1, key)
                 IN
                 IF d0.kind # "dict" THEN d1 = d0
                 ELSE
                   /\ d1.kind = "dict"
                   /\ Keys(d1) \subseteq Keys(d0) \cup {"x-examples"}
                   /\ \A k \in Keys(d0) \ {"x-examples"} :
                         Field(d1, k) = Field(d0, k)

\* C2: add_swagger_examples changes nothing in the document except the
\* x-examples key of the matched definitions: their other keys keep their
\* values, the other definitions and the other top-level fields are
\* unchanged (also when the call raises).
C2_OnlyExamplesChanged ==
    AfterTransform => OnlyExamplesChanged(doc_in, swagger_spec)

\* a call changed a document that has a definition outside the table, and a
\* matched definition kept its type field
C2_Witness ==
    /\ Returned
    /\ swagger_spec # doc_in
    /\ HasField(Field(doc_in, "definitions"), OtherKey(1))
    /\ Field(DefinitionOf(swagger_spec, FolderRequest), "type") = S("object")
    /\ HasField(DefinitionOf(swagger_spec, FolderRequest), "x-examples")

\* the document has no top-level definitions field
NoDefinitionsField(doc) == ~HasField(doc, "definitions")

\* C3 as stated: for every document without a top-level definitions field
\* add_swagger_examples returns it unchanged, raises nothing and prints no
\* progress line.
C3_Original ==
    (AfterTransform /\ NoDefinitionsField(doc_in)) =>
        /\ Returned
        /\ updated_spec = doc_in
        /\ swagger_spec = doc_in
        /\ stdout = <<>>

\* C3 amended: for every document that is a JSON object without a top-level
\* definitions field add_swagger_examples returns it unchanged, raises
\* nothing and prints no progress line.
C3_Amended ==
    (AfterTransform /\ doc_in.kind = "dict" /\ NoDefinitionsField(doc_in)) =>
        /\ Returned
        /\ exc = ""
        /\ updated_spec = doc_in
        /\ swagger_spec = doc_in
        /\ stdout = <<>>

\* a call ended on an object that has fields but no definitions
C3_Witness ==
    /\ AfterTransform
    /\ doc_in.kind = "dict"
    /\ HasField(doc_in, "swagger")
    /\ NoDefinitionsField(doc_in)

\* C4: applying add_swagger_examples to the document a first application
\* left gives that document again, with the same outcome (returned or
\* raised); and a successful run of the tool on the file a successful run
\* wrote leaves the file content as it was.
C4_Idempotent ==
    /\ AfterTransform =>
          LET again == add_swagger_examples(swagger_spec) IN
          /\ again.spec = swagger_spec
          /\ (again.exc = "") = Returned
    /\ (pc = "exited" /\ prev_status = 0 /\ exit_status = 0) =>
          file.text = file0.text

\* the second run succeeded on the output of the first, which had injected
\* examples
C4_Witness ==
    /\ pc = "exited"
    /\ prev_status = 0
    /\ exit_status = 0
    /\ HasField(DefinitionOf(doc_in, ProjectRequest), "x-examples")
    /\ stdout # <<>>

\* the nouns and descriptions the claim gives for the three table names
ExpectedDescriptions == {
    [name |-> BucketRequest,
     Basic |-> "Simple bucket with minimal required fields",
     Advanced |-> "Enterprise bucket with all available options"],
    [name |-> ProjectRequest,
     Basic |-> "Simple project with minimal required fields",
     Advanced |-> "Enterprise project with all available options"],
    [name |-> FolderRequest,
     Basic |-> "Simple folder with minimal required fields",
     Advanced |-> "Enterprise folder with all available options"] }

\* C5: for every table name N the descriptions injected are
\* 'Simple <noun> with minimal required fields' and 'Enterprise <noun> with
\* all available options', the noun being N lower-cased without its
\* 'request' suffix: bucket, project, folder.
C5_Descriptions ==
    /\ TableNames = {e.name : e \in ExpectedDescriptions}
    /\ Returned =>
         \A e \in ExpectedDescriptions :
           Matched(doc_in, e.name) =>
             LET xe == Field(DefinitionOf(updated_spec, e.name), "x-examples")
             IN
             /\ Field(Field(xe, "Basic"), "description") = S(e.Basic)
             /\ Field(Field(xe, "Advanced"), "description") = S(e.Advanced)

\* a call returned after patching the definitions of all three table names
C5_Witness ==
    /\ Returned
    /\ \A n \in TableNames :
          HasField(DefinitionOf(updated_spec, n), "x-examples")
    /\ Len(stdout) = 3

SuccessLine == "Successfully added Swagger 2.0 examples to docs/swagger.json"

ErrorPrefix == "Error processing swagger file: "

Failures == {"open_r_failed", "load_failed", "transform_failed",
             "open_w_failed", "dump_failed"}

Failed == \E i \in 1..Len(log) : log[i] \in Failures

AllSteps == <<"open_r", "load", "transform", "open_w", "dump">>

LastLine == IF stdout = <<>> THEN "" ELSE stdout[Len(stdout)]

\* the two outcomes of a run that has ended
Outcomes ==
    /\ pc = "exited" =>
         \/ /\ exit_status = 0
            /\ log = AllSteps
            /\ LastLine = SuccessLine
         \/ /\ exit_status = 1
            /\ Failed
            /\ exc # ""
            /\ LastLine = ErrorPrefix \o exc
    /\ Failed => exit_status # 0 /\ pc \in {"except", "exited"}
    /\ exit_status \in {-1, 0, 1}
    /\ (exit_status = -1) = (pc # "exited")

\* the position of main: every step of a run moves it forward
Rank == [start |-> 0, reading |-> 1, loaded |-> 2, transformed |-> 3,
         writing |-> 4, written |-> 5, except |-> 6, exited |-> 7]

Advances == pc # "exited" => Rank[pc'] > Rank[pc]

\* C6: every run of main ends (each step moves main forward), in exactly
\* one of two ways: exit status 0 after the read, the parse, the transform
\* and the write all succeeded, or exit status 1 with the line
\* 'Error processing swagger file: <cause>' printed after one of them
\* failed; no failure ends with status 0 and none goes unreported.
C6_TwoOutcomes == [][Outcomes' /\ Advances]_vars

\* a run ended with status 1 after the write failed and reported the cause
C6_Witness ==
    /\ pc = "exited"
    /\ exit_status = 1
    /\ LastStep = "dump_failed"
    /\ LastLine = ErrorPrefix \o "[Errno 28] No space left on device"

\* C7: after any run the file holds either its complete original content
\* (the run exited 1) or the complete serialized transformed document (the
\* run exited 0); no failing run leaves it truncated, empty or partial.
C7_AllOrNothing ==
    pc = "exited" =>
        \/ exit_status = 1 /\ file = file0
        \/ exit_status = 0 /\ file.text = json_dump(updated_spec)

IsProgressLine(line) ==
    \E n \in TableNames : line = "Added examples to " \o full_model_name(n)

IsFinalLine(line) == line = SuccessLine \/ line = ErrorPrefix \o exc

\* the definitions a call patches, in table order: the matched ones, up to
\* the first that is not an object
RECURSIVE PatchedFrom(_, _)
PatchedFrom(doc, i) ==
    IF i > Len(model_examples) THEN <<>>
    ELSE LET name == model_examples[i].name IN
         IF ~Matched(doc, name) THEN PatchedFrom(doc, i + 1)
         ELSE IF DefinitionOf(doc, name).kind # "dict" THEN <<>>
         ELSE <<full_model_name(name)>> \o PatchedFrom(doc, i + 1)

ProgressLines(doc) ==
    LET patched == PatchedFrom(doc, 1) IN
    [i \in 1..Len(patched) |-> "Added examples to " \o patched[i]]

TransformDone == \E i \in 1..Len(log) :
                    log[i] \in {"transform", "transform_failed"}

\* C8: standard output is one 'Added examples to models.<Name>' line per
\* definition patched, then exactly one final line: the success line if and
\* only if the run exits 0, otherwise the error line; never both; the
\* success line only after the write completed; nothing after the final
\* line.
C8_Output ==
    LET n      == Len(stdout)
        finals == {i \in 1..n : IsFinalLine(stdout[i])}
        body   == SubSeq(stdout, 1, n - Cardinality(finals))
    IN
    /\ finals \subseteq {n}
    /\ \A i \in 1..Len(body) : IsProgressLine(body[i])
    /\ body = IF TransformDone THEN ProgressLines(doc_in) ELSE <<>>
    /\ pc = "exited" =>
          /\ finals = {n}
          /\ (stdout[n] = SuccessLine) = (exit_status = 0)
          /\ (stdout[n] = ErrorPrefix \o exc) = (exit_status = 1)
    /\ pc # "exited" => finals = {}
    /\ (\E i \in 1..n : stdout[i] = SuccessLine) =>
          /\ LastStep = "dump"
          /\ file.text = json_dump(updated_spec)

\* a run patched one definition, then failed on the next and reported it
C8_Witness ==
    /\ pc = "exited"
    /\ exit_status = 1
    /\ Len(stdout) = 2
    /\ stdout[1] = "Added examples to models.BucketRequest"
    /\ LastStep = "transform_failed"
    /\ Matched(doc_in, FolderRequest)

\* the document is an object whose definitions field, if any, is an object
WellFormed(doc) ==
    /\ doc.kind = "dict"
    /\ HasField(doc, "definitions") => Field(doc, "definitions").kind = "dict"

\* C9 as stated: on every object document whose definitions field, when
\* present, is a mapping, add_swagger_examples returns without raising,
\* whatever the values under the definition keys.
C9_Original ==
    (AfterTransform /\ WellFormed(doc_in)) => Returned

\* C9 amended: on every object document whose definitions field, when
\* present, is a mapping, add_swagger_examples returns without raising
\* whatever the values under the keys that are not models.<Name> for a
\* table name, provided every models.<Name> entry present is an object.
C9_Amended ==
    ( /\ AfterTransform
      /\ WellFormed(doc_in)
      /\ \A n \in TableNames :
            Matched(doc_in, n) => DefinitionOf(doc_in, n).kind = "dict" )
    => (Returned /\ exc = "")

\* a call returned on a document that holds a non-object under a key outside
\* the table and objects, one with stale examples, under table keys
C9_Witness ==
    /\ Returned
    /\ Field(Field(doc_in, "definitions"), OtherKey(1)).kind = "str"
    /\ HasField(DefinitionOf(doc_in, BucketRequest), "x-examples")
    /\ Matched(doc_in, ProjectRequest)

\* C10: a run that exits 0 has read the file once and then written it once;
\* no run reads or writes it more than once; the file is opened for writing
\* only after the read, the parse and the transform succeeded, so a run that
\* fails before leaves the file as it was and creates no missing file.
C10_FileAccess ==
    /\ reads <= 1 /\ writes <= 1
    /\ exit_status = 0 => (reads = 1 /\ writes = 1 /\ log = AllSteps)
    /\ writes > 0 =>
          /\ reads = 1
          /\ Len(log) >= 4
          /\ SubSeq(log, 1, 4) = SubSeq(AllSteps, 1, 4)
    /\ writes = 0 => file = file0
    /\ ~file0.exists => ~file.exists

\* a run wrote the file after reading, parsing and transforming it
C10_Witness ==
    /\ pc = "exited"
    /\ exit_status = 0
    /\ reads = 1 /\ writes = 1
    /\ file.text # file0.text

====
